---- MODULE Spec2Model ----
(***************************************************************************)
(* A model of the generic Object / Validator / Factory / Persister layer   *)
(* (src/models/Base.py), of its two concrete models (src/models/User.py,   *)
(* src/models/SponsoringOrganizations.py) and of the CRUD Controller       *)
(* (src/controllers/CRUD.py).                                              *)
(*                                                                         *)
(* A Python dict is a function from its keys to its values; an object is   *)
(* its __dict__.  A result is what a call returns or the exception it      *)
(* raises.  The DynamoDB table behind a Persister is a function from the   *)
(* primary key (uuid) to the stored item.                                  *)
(*                                                                         *)
(* The require_role wrapper of the Controller methods lives in the         *)
(* Security module; the Controller actions below describe calls that have  *)
(* passed it.                                                              *)
(***************************************************************************)
EXTENDS Integers, Sequences, FiniteSets, TLC

VARIABLES klass, table, persister, constructed, pc, call

vars == <<klass, table, persister, constructed, pc, call>>

----------------------------------------------------------------------------
(* Bounds *)

\* The largest number of keys in a dict an input carries (a data dict, a
\* search dict, the attributes a caller assigns on a fresh object).
MaxKeys == 3

----------------------------------------------------------------------------
(* Values *)

EMPTY_STRING == ""
\* The Python values {} and [] (the defaults of User.roles, User.positions).
EMPTY_DICT == "{}"
EMPTY_LIST == "[]"

\* The values `not value` is true of.
Falsy == {EMPTY_STRING, EMPTY_DICT, EMPTY_LIST}

\* The values inputs carry: the empty string, an empty collection and two
\* non-empty strings.
Values == {EMPTY_STRING, EMPTY_DICT, "a", "b"}

FIELD_REQUIRED == "required"
FIELD_OPTIONAL == "optional"

None == "None"

NoItems == [k \in {} |-> EMPTY_STRING]

\* The order dicts of the model are iterated in (the insertion order of the
\* caller's dict).
KeyOrder ==
    <<"__index__", "uuid", "username", "password", "guardian_id", "roles",
      "positions", "guardians", "subdistrict_id", "name">>

KeyIndex(key) == CHOOSE i \in 1..Len(KeyOrder) : KeyOrder[i] = key

\* The keys of S in iteration order.
RECURSIVE KeysInOrder(_)
KeysInOrder(S) ==
    IF S = {} THEN <<>>
    ELSE LET k == CHOOSE x \in S : \A y \in S : KeyIndex(x) <= KeyIndex(y)
         IN  <<k>> \o KeysInOrder(S \ {k})

\* All dicts with at most n keys among keys.
Dicts(keys, n) ==
    UNION {[S -> Values] : S \in {T \in SUBSET keys : Cardinality(T) <= n}}

----------------------------------------------------------------------------
(* Results *)

Ok(v) == [status |-> "ok", msg |-> <<>>, value |-> v]

Raise(kind, msg) == [status |-> kind, msg |-> msg, value |-> <<>>]

IsOk(r) == r.status = "ok"

----------------------------------------------------------------------------
(* Concrete classes *)

Classes == {"User", "SponsoringOrganizations"}

\* klass(): the attributes __init__ sets.
NewObject(k) ==
    IF k = "User"
    THEN [username |-> EMPTY_STRING, password |-> EMPTY_STRING,
          guardian_id |-> EMPTY_STRING, roles |-> EMPTY_DICT,
          positions |-> EMPTY_LIST]
    ELSE [subdistrict_id |-> EMPTY_STRING, name |-> EMPTY_STRING]

\* Validator.get_field_requirements(), in the order the dict lists them
\* (the order a dict is iterated in from Python 3.7 on).
FieldRequirements(k) ==
    IF k = "User"
    THEN << <<"uuid", FIELD_REQUIRED>>, <<"username", FIELD_REQUIRED>>,
            <<"password", FIELD_REQUIRED>>, <<"roles", FIELD_OPTIONAL>>,
            <<"positions", FIELD_OPTIONAL>>, <<"guardians", FIELD_OPTIONAL>> >>
    ELSE << <<"uuid", FIELD_REQUIRED>>, <<"subdistrict_id", FIELD_REQUIRED>>,
            <<"name", FIELD_REQUIRED>> >>

\* The methods the concrete Factory defines itself; every other method is
\* the one of Base.Factory.
FactoryMethods(k) ==
    IF k = "User"
    THEN {"load_by_session", "get_uuid_prefix", "_get_object_class",
          "_get_persister"}
    ELSE {"_get_object_class", "_get_persister"}

\* The keys input dicts are drawn from.
InputKeys(k) ==
    IF k = "User"
    THEN {"uuid", "username", "password", "guardian_id"}
    ELSE {"uuid", "subdistrict_id", "name"}

SearchKeys(k) ==
    IF k = "User"
    THEN {"__index__", "username", "password"}
    ELSE {"__index__", "name", "subdistrict_id"}

----------------------------------------------------------------------------
(* Object *)

\* key[1:] for the keys that begin with an underscore.
Stripped == [k \in {"__index__"} |-> "_index__"]

\* The field name of an attribute: key if key[0] != '_', else key[1:].
Unmarked(key) == IF key \in DOMAIN Stripped THEN Stripped[key] ELSE key

\* Object.to_dict.  (Two attributes with one field name do not occur among
\* the attributes of the model.)
ToDict(obj) ==
    [f \in {Unmarked(k) : k \in DOMAIN obj} |->
        obj[CHOOSE k \in DOMAIN obj : Unmarked(k) = f]]

\* Object.fields.
Fields(obj) == {Unmarked(k) : k \in DOMAIN obj}

\* setattr(obj, key, data[key]) for every key of keys.
SetAttrs(obj, data, keys) ==
    [k \in DOMAIN obj \cup keys |-> IF k \in keys THEN data[k] ELSE obj[k]]

\* Object.set_from_data.
SetFromData(obj, data) ==
    SetAttrs(obj, data, DOMAIN obj \cap DOMAIN data)

\* The objects a caller hands in: a fresh object with some attributes
\* assigned (obj.uuid = ..., which Persister.delete reads, among them).
Objects(k) ==
    {SetAttrs(NewObject(k), a, DOMAIN a) : a \in Dicts(InputKeys(k), MaxKeys)}

----------------------------------------------------------------------------
(* Validator *)

MissingMsg(key) == <<"Missing required field", key>>

\* The test of Validator._validate_required_fields.
IsMissing(obj, key) ==
    key \notin DOMAIN ToDict(obj) \/ ToDict(obj)[key] \in Falsy

\* Validator._validate_required_fields: (valid, errors).
ValidateRequiredFields(k, obj) ==
    LET missing == SelectSeq(FieldRequirements(k),
                       LAMBDA r : r[2] = FIELD_REQUIRED /\ IsMissing(obj, r[1]))
        errors  == [i \in 1..Len(missing) |-> MissingMsg(missing[i][1])]
    IN  <<errors = <<>>, errors>>

\* Validator._validate: no concrete validator overrides it.
ValidateOther(k, obj) == <<TRUE, <<>> >>

\* Validator.get_validation_errors.
GetValidationErrors(k, obj) ==
    ValidateRequiredFields(k, obj)[2] \o ValidateOther(k, obj)[2]

\* A validate that raises with the last error collected, not the first.
Validate_LastError(k, obj) ==
    LET errors == GetValidationErrors(k, obj)
    IN  IF errors # <<>>
        THEN Raise("InvalidObjectException", errors[Len(errors)])
        ELSE Ok(<<>>)

\* Validator.validate (and Object.validate, which delegates to it).
Validate(k, obj) ==
    LET errors == GetValidationErrors(k, obj)
    IN  IF errors # <<>>
        THEN Raise("InvalidObjectException", errors[1])
        ELSE Ok(<<>>)

----------------------------------------------------------------------------
(* Persister: the operations on the table *)

\* What an operation leaves behind: its result, the table, the Factory's
\* cached persister, the persisters the Factory constructed in it, the
\* steps it took and the query it issued.
Out(res, tbl, p, made, trace, query) ==
    [res |-> res, table |-> tbl, persister |-> p, made |-> made,
     trace |-> trace, query |-> query]

\* A get_persistable_object that keeps the empty strings.
GetPersistableObject_KeepEmpty(obj) == ToDict(obj)

\* Persister.get_persistable_object.
GetPersistableObject(obj) ==
    LET d == ToDict(obj)
    IN  [key \in {x \in DOMAIN d : d[x] # EMPTY_STRING} |-> d[key]]

\* table.put_item(Item=item): the item replaces the one with its uuid.
PutItem(tbl, item) ==
    [u \in DOMAIN tbl \cup {item["uuid"]} |->
        IF u = item["uuid"] THEN item ELSE tbl[u]]

\* Persister.save.
PersisterSaveOp(k, tbl, p, obj) ==
    LET v == Validate(k, obj)
    IN  IF ~IsOk(v)
        THEN Out(v, tbl, p, 0, <<"validate">>, <<>>)
        ELSE Out(Ok(<<>>), PutItem(tbl, GetPersistableObject(obj)), p, 0,
                 <<"validate", "write">>, <<>>)

\* Persister.get.
PersisterGetOp(tbl, p, key) ==
    IF key["uuid"] \in DOMAIN tbl
    THEN Out(Ok(<<tbl[key["uuid"]]>>), tbl, p, 0, <<"read">>, <<>>)
    ELSE Out(Raise("RecordNotFoundException", <<"Record not found">>),
             tbl, p, 0, <<"read">>, <<>>)

\* The items of the table an equality conjunction selects, as a list.
RECURSIVE ItemList(_, _)
ItemList(tbl, S) ==
    IF S = {} THEN <<>>
    ELSE LET u == CHOOSE x \in S : TRUE
         IN  <<tbl[u]>> \o ItemList(tbl, S \ {u})

Matching(tbl, expression) ==
    ItemList(tbl, {u \in DOMAIN tbl :
                     \A key \in DOMAIN expression :
                        /\ key \in DOMAIN tbl[u]
                        /\ tbl[u][key] = expression[key]})

\* Persister.query.  index_name is bound only when search_data names the
\* index; the loop reads it for every remaining key, and the query call reads
\* it after the loop.
PersisterQueryOp(tbl, p, search_data) ==
    LET named == "__index__" \in DOMAIN search_data
        rest  == [key \in DOMAIN search_data \ {"__index__"} |-> search_data[key]]
        keys  == KeysInOrder(DOMAIN rest)
        index_name ==
            IF search_data["__index__"] \in Falsy /\ keys # <<>>
            THEN keys[1]
            ELSE search_data["__index__"]
    IN  IF ~named
        THEN Out(Raise("UnboundLocalError", <<"index_name">>), tbl, p, 0, <<>>, <<>>)
        ELSE Out(Ok(Matching(tbl, rest)), tbl, p, 0, <<"query">>,
                 <<[index |-> index_name, expression |-> rest]>>)

\* Persister.delete.
PersisterDeleteOp(tbl, p, obj) ==
    IF "uuid" \notin DOMAIN obj
    THEN Out(Raise("AttributeError", <<"uuid">>), tbl, p, 0, <<>>, <<>>)
    ELSE Out(Ok(<<>>), [u \in DOMAIN tbl \ {obj["uuid"]} |-> tbl[u]], p, 0,
             <<"delete">>, <<>>)

----------------------------------------------------------------------------
(* Factory *)

\* Factory.construct.
Construct(k, data, invalid_field_exceptions) ==
    LET obj     == NewObject(k)
        known   == {key \in DOMAIN data : key \in Fields(obj)}
        unknown == KeysInOrder(DOMAIN data \ known)
    IN  IF invalid_field_exceptions /\ unknown # <<>>
        THEN Raise("Exception", <<"Unknown field", k, unknown[1]>>)
        ELSE Ok(<<SetAttrs(obj, data, known)>>)

\* self.get_persister(): the concrete Factory's method of that name, else
\* Base.Factory.get_persister, which raises.
GetPersister(k) ==
    IF "get_persister" \in FactoryMethods(k)
    THEN Ok(<<"Persister">>)
    ELSE Raise("Exception", <<"SYSTEM ERROR: persister not defined.">>)

\* The property Factory._persister.
PersisterProperty(k, p) ==
    IF p # None
    THEN [res |-> Ok(<<p>>), persister |-> p, made |-> 0]
    ELSE LET g == GetPersister(k)
         IN  IF IsOk(g)
             THEN [res |-> g, persister |-> g.value[1], made |-> 1]
             ELSE [res |-> g, persister |-> p, made |-> 0]

\* Factory.load_from_database.
LoadFromDatabase(k, tbl, p, search_data) ==
    LET acc == PersisterProperty(k, p)
        got == PersisterGetOp(tbl, acc.persister, search_data)
    IN  IF ~IsOk(acc.res)
        THEN Out(acc.res, tbl, acc.persister, acc.made, <<"persister">>, <<>>)
        ELSE IF ~IsOk(got.res)
        THEN Out(got.res, tbl, acc.persister, acc.made,
                 <<"persister">> \o got.trace, <<>>)
        ELSE Out(Construct(k, got.res.value[1], TRUE), tbl, acc.persister,
                 acc.made, <<"persister">> \o got.trace \o <<"construct">>, <<>>)

\* Factory.load_by_uuid.
LoadByUuid(k, tbl, p, uuid) == LoadFromDatabase(k, tbl, p, [uuid |-> uuid])

\* Factory.load_from_database_query.
LoadFromDatabaseQuery(k, tbl, p, search_data) ==
    LET acc   == PersisterProperty(k, p)
        q     == PersisterQueryOp(tbl, acc.persister, search_data)
        items == q.res.value
    IN  IF ~IsOk(acc.res)
        THEN Out(acc.res, tbl, acc.persister, acc.made, <<"persister">>, <<>>)
        ELSE IF ~IsOk(q.res)
        THEN Out(q.res, tbl, acc.persister, acc.made,
                 <<"persister">> \o q.trace, q.query)
        ELSE IF Len(items) = 0
        THEN Out(Raise("RecordNotFoundException", <<"Record not found">>),
                 tbl, acc.persister, acc.made, <<"persister">> \o q.trace, q.query)
        ELSE IF Len(items) > 1
        THEN Out(Raise("MultipleMatchException", <<"Multiple matches found">>),
                 tbl, acc.persister, acc.made, <<"persister">> \o q.trace, q.query)
        ELSE Out(Construct(k, items[1], TRUE), tbl, acc.persister, acc.made,
                 <<"persister">> \o q.trace \o <<"construct">>, q.query)

----------------------------------------------------------------------------
(* Controller *)

\* Controller.get.
ControllerGetOp(k, tbl, p, uuid) == LoadByUuid(k, tbl, p, uuid)

\* Controller.set.
ControllerSetOp(k, tbl, p, data) ==
    LET c == Construct(k, data, TRUE)
        v == Validate(k, c.value[1])
    IN  IF ~IsOk(c)
        THEN Out(c, tbl, p, 0, <<"construct">>, <<>>)
        ELSE IF ~IsOk(v)
        THEN Out(v, tbl, p, 0, <<"construct", "validate">>, <<>>)
        ELSE Out(c, tbl, p, 0, <<"construct", "validate">>, <<>>)

\* An update that tests only that data has the key 'uuid'.
ControllerUpdateOp_KeyOnly(k, tbl, p, data) ==
    IF "uuid" \in DOMAIN data
    THEN LET l   == LoadByUuid(k, tbl, p, data["uuid"])
             obj == SetFromData(l.res.value[1], data)
             v   == Validate(k, obj)
         IN  IF ~IsOk(l.res)
             THEN l
             ELSE Out(IF IsOk(v) THEN Ok(<<obj>>) ELSE v, tbl, l.persister,
                      l.made, l.trace \o <<"validate">>, <<>>)
    ELSE Out(Raise("ClientErrorException", <<"No uuid specified.">>),
             tbl, p, 0, <<>>, <<>>)

\* Controller.update.
ControllerUpdateOp(k, tbl, p, data) ==
    IF "uuid" \in DOMAIN data /\ data["uuid"] \notin Falsy
    THEN LET l   == LoadByUuid(k, tbl, p, data["uuid"])
             obj == SetFromData(l.res.value[1], data)
             v   == Validate(k, obj)
         IN  IF ~IsOk(l.res)
             THEN l
             ELSE Out(IF IsOk(v) THEN Ok(<<obj>>) ELSE v, tbl, l.persister,
                      l.made, l.trace \o <<"validate">>, <<>>)
    ELSE Out(Raise("ClientErrorException", <<"No uuid specified.">>),
             tbl, p, 0, <<>>, <<>>)

\* Controller.search: factory.get_persister().query(search_data); the
\* persister obtained here is not the one the property caches.
ControllerSearchOp(k, tbl, p, search_data) ==
    LET g == GetPersister(k)
    IN  IF ~IsOk(g)
        THEN Out(g, tbl, p, 0, <<"persister">>, <<>>)
        ELSE LET q == PersisterQueryOp(tbl, p, search_data)
             IN  Out(q.res, tbl, p, 0, <<"persister">> \o q.trace, q.query)

----------------------------------------------------------------------------
(* State *)

\* klass:       the concrete class the Factory and the Controller serve
\* table:       the items of the class's table, by uuid
\* persister:   Factory.__persister
\* constructed: the persisters the property Factory._persister constructed
\* pc:          "ready" for a call, or "returned" from one
\* call:        the call that returned: its operation, its argument, its
\*              result, the steps it took, the query it issued and the table
\*              before it

NoCall ==
    [op |-> "none", arg |-> NoItems, flag |-> TRUE, res |-> Ok(<<>>),
     trace |-> <<>>, query |-> <<>>, before |-> NoItems]

Init ==
    /\ klass \in Classes
    /\ table = NoItems
    /\ persister = None
    /\ constructed = 0
    /\ pc = "ready"
    /\ call = NoCall

\* A call runs to its end and leaves its outcome.
Finish(op, arg, flag, out) ==
    /\ pc' = "returned"
    /\ \E o \in {out} :
          /\ call' = [op |-> op, arg |-> arg, flag |-> flag, res |-> o.res,
                      trace |-> o.trace, query |-> o.query, before |-> table]
          /\ table' = o.table
          /\ persister' = o.persister
          /\ constructed' = constructed + o.made
    /\ UNCHANGED klass

\* The search dicts: at least one key besides the index selector, or empty.
SearchData(k) ==
    {d \in Dicts(SearchKeys(k), MaxKeys) : DOMAIN d # {"__index__"}}

----------------------------------------------------------------------------
(* Actions: Object, Validator, Factory.construct *)

ObjectValidate ==
    /\ pc = "ready"
    /\ \E obj \in Objects(klass) :
        Finish("validate", obj, TRUE,
               Out(Validate(klass, obj), table, persister, 0, <<"validate">>, <<>>))

ObjectToDict ==
    /\ pc = "ready"
    /\ \E obj \in Objects(klass) :
        Finish("to_dict", obj, TRUE,
               Out(Ok(<<ToDict(obj)>>), table, persister, 0, <<>>, <<>>))

FactoryConstruct ==
    /\ pc = "ready"
    /\ \E data \in Dicts(InputKeys(klass), MaxKeys), flag \in BOOLEAN :
        Finish("construct", data, flag,
               Out(Construct(klass, data, flag), table, persister, 0,
                   <<"construct">>, <<>>))

----------------------------------------------------------------------------
(* Actions: Persister *)

PersisterSave ==
    /\ pc = "ready"
    /\ \E obj \in Objects(klass) :
        Finish("save", obj, TRUE, PersisterSaveOp(klass, table, persister, obj))

\* (The table's key is a non-empty string.)
PersisterGet ==
    /\ pc = "ready"
    /\ \E uuid \in Values \ Falsy :
        Finish("get", [uuid |-> uuid], TRUE,
               PersisterGetOp(table, persister, [uuid |-> uuid]))

PersisterQuery ==
    /\ pc = "ready"
    /\ \E search_data \in SearchData(klass) :
        Finish("query", search_data, TRUE,
               PersisterQueryOp(table, persister, search_data))

PersisterDelete ==
    /\ pc = "ready"
    /\ \E obj \in Objects(klass) :
        /\ DOMAIN obj \ DOMAIN NewObject(klass) \subseteq {"uuid"}
        /\ \A key \in DOMAIN NewObject(klass) : obj[key] = NewObject(klass)[key]
        /\ Finish("delete", obj, TRUE, PersisterDeleteOp(table, persister, obj))

----------------------------------------------------------------------------
(* Actions: Factory loads *)

FactoryLoadByUuid ==
    /\ pc = "ready"
    /\ \E uuid \in Values :
        Finish("load_by_uuid", [uuid |-> uuid], TRUE,
               LoadByUuid(klass, table, persister, uuid))

FactoryLoadFromDatabase ==
    /\ pc = "ready"
    /\ \E uuid \in Values :
        Finish("load_from_database", [uuid |-> uuid], TRUE,
               LoadFromDatabase(klass, table, persister, [uuid |-> uuid]))

FactoryLoadFromDatabaseQuery ==
    /\ pc = "ready"
    /\ \E search_data \in SearchData(klass) :
        Finish("load_from_database_query", search_data, TRUE,
               LoadFromDatabaseQuery(klass, table, persister, search_data))

----------------------------------------------------------------------------
(* Actions: Controller *)

ControllerGet ==
    /\ pc = "ready"
    /\ \E uuid \in Values :
        Finish("Controller.get", [uuid |-> uuid], TRUE,
               ControllerGetOp(klass, table, persister, uuid))

ControllerSet ==
    /\ pc = "ready"
    /\ \E data \in Dicts(InputKeys(klass), MaxKeys) :
        Finish("Controller.set", data, TRUE,
               ControllerSetOp(klass, table, persister, data))

ControllerUpdate ==
    /\ pc = "ready"
    /\ \E data \in Dicts(InputKeys(klass), MaxKeys) :
        Finish("Controller.update", data, TRUE,
               ControllerUpdateOp(klass, table, persister, data))

ControllerSearch ==
    /\ pc = "ready"
    /\ \E search_data \in SearchData(klass) :
        Finish("Controller.search", search_data, TRUE,
               ControllerSearchOp(klass, table, persister, search_data))

\* The caller takes the result; the next call may come.
Respond ==
    /\ pc = "returned"
    /\ pc' = "ready"
    /\ call' = NoCall
    /\ UNCHANGED <<klass, table, persister, constructed>>

----------------------------------------------------------------------------
(* Specifications *)

Next ==
    \/ ObjectValidate
    \/ ObjectToDict
    \/ FactoryConstruct
    \/ PersisterSave
    \/ PersisterGet
    \/ PersisterQuery
    \/ PersisterDelete
    \/ FactoryLoadByUuid
    \/ FactoryLoadFromDatabase
    \/ FactoryLoadFromDatabaseQuery
    \/ ControllerGet
    \/ ControllerSet
    \/ ControllerUpdate
    \/ ControllerSearch
    \/ Respond

Spec == Init /\ [][Next]_vars

----------------------------------------------------------------------------
(* Properties *)

Returned(op) == pc = "returned" /\ call.op = op

\* The required keys of a class, in the order the requirements list them.
RequiredKeys(k) ==
    LET reqs == SelectSeq(FieldRequirements(k), LAMBDA r : r[2] = FIELD_REQUIRED)
    IN  [i \in 1..Len(reqs) |-> reqs[i][1]]

\* d holds a truthy value under key.
Populated(d, key) == key \in DOMAIN d /\ d[key] \notin Falsy

\* d holds a truthy value under every required key.
AllRequiredPopulated(k, d) ==
    \A i \in 1..Len(RequiredKeys(k)) : Populated(d, RequiredKeys(k)[i])

\* The steps of a trace that are the store's or the validator's.
StoreSteps(trace) ==
    SelectSeq(trace, LAMBDA e : e \in {"read", "query", "validate", "write", "delete"})

RoundTrips(trace) ==
    Len(SelectSeq(trace, LAMBDA e : e \in {"read", "query", "write", "delete"}))

\* search_data without the index selector.
Predicate(search_data) ==
    [key \in DOMAIN search_data \ {"__index__"} |-> search_data[key]]

\* C1: Controller.set(data) for valid data returns successfully, and the
\* table's record with the identity of data is then the newly constructed
\* object (as persisted) and nothing else: no value of a record stored
\* before under that identity survives.
C1_SetReplacesRecord ==
    (Returned("Controller.set") /\ AllRequiredPopulated(klass, call.arg)) =>
        /\ IsOk(call.res)
        /\ call.arg["uuid"] \in DOMAIN table
        /\ table[call.arg["uuid"]] = GetPersistableObject(call.res.value[1])

\* C2: Controller.update(data) with a non-empty uuid naming an existing
\* record yields a record in which every declared field whose key is in data
\* holds the value from data and every other declared field holds the value
\* stored before (the validation of the merged record may still reject it).
C2_UpdateFrame ==
    (/\ Returned("Controller.update")
     /\ Populated(call.arg, "uuid")
     /\ call.arg["uuid"] \in DOMAIN call.before) =>
        /\ call.res.status \in {"ok", "InvalidObjectException"}
        /\ IsOk(call.res) =>
             LET obj == call.res.value[1]
                 old == call.before[call.arg["uuid"]]
             IN  \A f \in DOMAIN NewObject(klass) :
                    obj[f] = IF f \in DOMAIN call.arg THEN call.arg[f]
                             ELSE IF f \in DOMAIN old THEN old[f]
                             ELSE EMPTY_STRING

\* C3: Persister.query(search_data) issues its query with the index named by
\* '__index__' when search_data has that key, else with the first remaining
\* key as the index name; in both cases with the conjunction of equalities
\* over exactly the remaining key/value pairs.
C3_QueryIndexSelection ==
    (Returned("query") /\ DOMAIN Predicate(call.arg) # {}) =>
        /\ IsOk(call.res)
        /\ call.query =
             <<[index |-> IF "__index__" \in DOMAIN call.arg
                          THEN call.arg["__index__"]
                          ELSE KeysInOrder(DOMAIN Predicate(call.arg))[1],
                expression |-> Predicate(call.arg)]>>

\* C4: Factory.load_from_database_query(search_data) raises RecordNotFound
\* when the query matches no record, MultipleMatch when it matches more than
\* one, and with exactly one match returns an object whose field values are
\* that record's.
C4_LoadFromDatabaseQuery ==
    (Returned("load_from_database_query") /\ DOMAIN Predicate(call.arg) # {}) =>
        LET matches == Matching(call.before, Predicate(call.arg))
        IN  /\ Len(matches) = 0 => call.res.status = "RecordNotFoundException"
            /\ Len(matches) > 1 => call.res.status = "MultipleMatchException"
            /\ Len(matches) = 1 =>
                 /\ IsOk(call.res)
                 /\ \A key \in DOMAIN matches[1] :
                       /\ key \in DOMAIN ToDict(call.res.value[1])
                       /\ ToDict(call.res.value[1])[key] = matches[1][key]

\* C5: Persister.save(obj) validates obj before any write.  When every
\* required field of obj is populated, it writes an item with no key whose
\* value is the empty string and with every other field of obj.to_dict()
\* unchanged; otherwise it raises InvalidObject, writes nothing and leaves
\* the table as it was.
C5_SaveValidatesAndStrips ==
    Returned("save") =>
        LET d == ToDict(call.arg)
        IN  IF AllRequiredPopulated(klass, d)
            THEN /\ IsOk(call.res)
                 /\ StoreSteps(call.trace) = <<"validate", "write">>
                 /\ d["uuid"] \in DOMAIN table
                 /\ LET item == table[d["uuid"]]
                    IN  /\ \A key \in DOMAIN item : item[key] # EMPTY_STRING
                        /\ DOMAIN item \subseteq DOMAIN d
                        /\ \A key \in DOMAIN d :
                              d[key] # EMPTY_STRING =>
                                 key \in DOMAIN item /\ item[key] = d[key]
            ELSE /\ call.res.status = "InvalidObjectException"
                 /\ StoreSteps(call.trace) = <<"validate">>
                 /\ table = call.before

\* A save that replaced a stored record by an object with an empty-string
\* field and a different value elsewhere.
C5_Witness ==
    /\ Returned("save")
    /\ IsOk(call.res)
    /\ \E key \in DOMAIN call.arg : call.arg[key] = EMPTY_STRING
    /\ call.arg["uuid"] \in DOMAIN call.before
    /\ call.before[call.arg["uuid"]] # table[call.arg["uuid"]]

\* C6: validate() succeeds on every object whose required fields are all
\* present and truthy; with a required field absent or falsy it raises
\* InvalidObject, and the message is that of the first missing required
\* field in the order the requirements declare them.
C6_ValidateRequiredFields ==
    Returned("validate") =>
        LET d    == ToDict(call.arg)
            keys == RequiredKeys(klass)
        IN  /\ AllRequiredPopulated(klass, d) => IsOk(call.res)
            /\ \A i \in 1..Len(keys) :
                  (/\ ~Populated(d, keys[i])
                   /\ \A j \in 1..(i - 1) : Populated(d, keys[j])) =>
                     /\ call.res.status = "InvalidObjectException"
                     /\ call.res.msg = MissingMsg(keys[i])

\* A validate that failed on an object with two required fields missing, the
\* first of them holding a falsy value that is not the empty string.
C6_Witness ==
    /\ Returned("validate")
    /\ call.res.status = "InvalidObjectException"
    /\ LET d    == ToDict(call.arg)
           keys == RequiredKeys(klass)
       IN  \E i, j \in 1..Len(keys) :
              /\ i < j
              /\ keys[i] \in DOMAIN d /\ d[keys[i]] = EMPTY_DICT
              /\ ~Populated(d, keys[j])
              /\ \A h \in 1..(i - 1) : Populated(d, keys[h])

\* C7: for every object O of a concrete class, Factory.construct(O.to_dict())
\* succeeds and yields an object whose to_dict() equals O.to_dict().
C7_RoundTrip ==
    Returned("to_dict") =>
        LET d == call.res.value[1]
            c == Construct(klass, d, TRUE)
        IN  IsOk(c) /\ ToDict(c.value[1]) = d

\* C8: Controller.update(data) raises ClientError ('No uuid specified.')
\* whenever data has no 'uuid' key or a falsy 'uuid' value, and then takes
\* no step at all: no persister access, no load, no validation, no write.
C8_UpdateWithoutUuid ==
    (Returned("Controller.update") /\ ~Populated(call.arg, "uuid")) =>
        /\ call.res = Raise("ClientErrorException", <<"No uuid specified.">>)
        /\ call.trace = <<>>
        /\ table = call.before

\* An update with an empty uuid and another key, on a table that holds a
\* record.
C8_Witness ==
    /\ Returned("Controller.update")
    /\ "uuid" \in DOMAIN call.arg
    /\ call.arg["uuid"] \in Falsy
    /\ DOMAIN call.arg # {"uuid"}
    /\ DOMAIN table # {}
    /\ call.res.status = "ClientErrorException"

\* C9: a Controller.update on an existing record reads the store, then
\* validates, then writes, the write only after a validation that succeeded;
\* and no Controller call makes more than two round trips to the store.
C9_UpdateReadValidateWrite ==
    /\ (/\ Returned("Controller.update")
        /\ Populated(call.arg, "uuid")
        /\ call.arg["uuid"] \in DOMAIN call.before) =>
           /\ StoreSteps(call.trace) \in
                 {<<"read", "validate", "write">>, <<"read", "validate">>}
           /\ IsOk(call.res) =>
                 StoreSteps(call.trace) = <<"read", "validate", "write">>
    /\ (/\ pc = "returned"
        /\ call.op \in {"Controller.get", "Controller.set",
                        "Controller.update", "Controller.search"}) =>
           RoundTrips(call.trace) <= 2

\* C10: the Factory constructs its persister on the first load and reuses it:
\* never more than one persister is constructed, and a load that returned
\* has obtained one.
C10_LazyPersister ==
    /\ constructed <= 1
    /\ (/\ pc = "returned"
        /\ call.op \in {"load_by_uuid", "load_from_database",
                        "load_from_database_query"}) =>
           /\ persister # None
           /\ constructed = 1

====
